---- MODULE Spec2Model ----
(***************************************************************************)
(* PDF outline extraction (JugaadChhabra/AdobeRound2).                     *)
(*                                                                         *)
(* The driver (app.py) runs pdf_processor.PDFProcessor.extract_outline on  *)
(* every input file and dumps the result as JSON.  heading_detector.py     *)
(* holds the HeadingDetector both processors use and a second PDFProcessor *)
(* class with its own extract_outline; both classes are modelled.          *)
(*                                                                         *)
(* Texts are TLA+ strings; a character is a string of length one.  The     *)
(* regular expressions of the source are written out as matchers.          *)
(***************************************************************************)
EXTENDS Integers, Sequences, FiniteSets, TLC

VARIABLES
    pdf,          \* the input file at hand: what the parsers yield for it
    impl,         \* the code that ran on the input: None before it has
    call,         \* the outcome of that call: the value returned, the messages logged
    artifact,     \* what the driver wrote to the file's output
    text_blocks,  \* detect_headings: the page's blocks it was called with
    headings,     \* detect_headings: the list it returned
    arg,          \* a helper called by itself: its argument
    ret           \* and the values it returned, call after call

vars == <<pdf, impl, call, artifact, text_blocks, headings, arg, ret>>

None == "None"

----------------------------------------------------------------------------
(* Characters and strings (Python str, ASCII).                             *)

Ch(s, i) == IF i >= 1 /\ i <= Len(s) THEN SubSeq(s, i, i) ELSE ""

Digit == {"0", "1", "2", "3", "4", "5", "6", "7", "8", "9"}

UpperStr == "ABCDEFGHIJKLMNOPQRSTUVWXYZ"

LowerStr == "abcdefghijklmnopqrstuvwxyz"

Upper == {Ch(UpperStr, i) : i \in 1..Len(UpperStr)}

Lower == {Ch(LowerStr, i) : i \in 1..Len(LowerStr)}

Letter == Upper \cup Lower

\* \s
Space == {" ", "\n", "\t"}

\* [a-zA-Z0-9_ ]
TitleChars == Letter \cup Digit \cup {"_", " "}

\* [a-zA-Z ]
WordChars == Letter \cup {" "}

LowerCh(c) ==
    IF c \in Upper
    THEN Ch(LowerStr, CHOOSE i \in 1..Len(UpperStr) : Ch(UpperStr, i) = c)
    ELSE c

\* str.lower(), half by half
RECURSIVE str_lower(_)
str_lower(s) ==
    IF Len(s) <= 1 THEN LowerCh(s)
    ELSE str_lower(SubSeq(s, 1, Len(s) \div 2))
         \o str_lower(SubSeq(s, Len(s) \div 2 + 1, Len(s)))

\* sub in s
Contains(s, sub) ==
    \E i \in 1..(Len(s) - Len(sub) + 1) : SubSeq(s, i, i + Len(sub) - 1) = sub

StartsWithAt(s, i, sub) ==
    /\ i + Len(sub) - 1 <= Len(s)
    /\ SubSeq(s, i, i + Len(sub) - 1) = sub

EndsWith(s, sub) ==
    /\ Len(sub) <= Len(s)
    /\ SubSeq(s, Len(s) - Len(sub) + 1, Len(s)) = sub

\* the first index >= i whose character is not in class C (Len(s) + 1 if none)
RECURSIVE SkipClass(_, _, _)
SkipClass(s, i, C) ==
    IF i <= Len(s) /\ Ch(s, i) \in C THEN SkipClass(s, i + 1, C) ELSE i

\* the last index <= i whose character is not in class C (0 if none)
RECURSIVE SkipClassBack(_, _, _)
SkipClassBack(s, i, C) ==
    IF i >= 1 /\ Ch(s, i) \in C THEN SkipClassBack(s, i - 1, C) ELSE i

AllIn(s, i, j, C) == \A k \in i..j : Ch(s, k) \in C

\* str.strip()
str_strip(s) ==
    LET a == SkipClass(s, 1, Space)
        b == SkipClassBack(s, Len(s), Space)
    IN  IF a > b THEN "" ELSE SubSeq(s, a, b)

\* the first index >= i whose character is in class C (Len(s) + 1 if none)
RECURSIVE SkipTo(_, _, _)
SkipTo(s, i, C) ==
    IF i <= Len(s) /\ Ch(s, i) \notin C THEN SkipTo(s, i + 1, C) ELSE i

\* str.split('\n')
RECURSIVE SplitLines(_)
SplitLines(s) ==
    LET n == SkipTo(s, 1, {"\n"})
    IN  IF n > Len(s) THEN <<s>>
        ELSE <<SubSeq(s, 1, n - 1)>> \o SplitLines(SubSeq(s, n + 1, Len(s)))

\* len(str.split()): the number of maximal runs of non-whitespace
RECURSIVE WordCountFrom(_, _)
WordCountFrom(s, i) ==
    LET a == SkipClass(s, i, Space)
    IN  IF a > Len(s) THEN 0 ELSE 1 + WordCountFrom(s, SkipTo(s, a, Space))

WordCount(s) == WordCountFrom(s, 1)

\* str.isdigit()
str_isdigit(s) == s # "" /\ AllIn(s, 1, Len(s), Digit)

\* str.istitle(): an uppercase letter only after an uncased character, a
\* lowercase letter only after a cased one, and at least one cased character
str_istitle(s) ==
    /\ \E i \in 1..Len(s) : Ch(s, i) \in Letter
    /\ \A i \in 1..Len(s) :
          /\ Ch(s, i) \in Upper => Ch(s, i - 1) \notin Letter
          /\ Ch(s, i) \in Lower => Ch(s, i - 1) \in Letter

\* str.isupper(): no lowercase letter and at least one cased character
str_isupper(s) ==
    /\ \E i \in 1..Len(s) : Ch(s, i) \in Upper
    /\ \A i \in 1..Len(s) : Ch(s, i) \notin Lower

----------------------------------------------------------------------------
(* heading_detector.py: class HeadingDetector                              *)

\* index after ^\d+ at i, or 0 if no digit stands at i
DigitsAt(s, i) == LET j == SkipClass(s, i, Digit) IN IF j > i THEN j ELSE 0

\* index after \s+ at i, or 0 if no whitespace stands at i
SpacesAt(s, i) == LET j == SkipClass(s, i, Space) IN IF j > i THEN j ELSE 0

\* [A-Z]C+$ from index i
TitleTail(s, i, C) ==
    /\ i >= 1
    /\ Ch(s, i) \in Upper
    /\ i + 1 <= Len(s)
    /\ AllIn(s, i + 1, Len(s), C)

\* ^\d+\.\s+[A-Z][a-zA-Z0-9_ ]+$
MatchNumbered1(s) ==
    LET a == DigitsAt(s, 1)
        b == IF a > 0 /\ Ch(s, a) = "." THEN SpacesAt(s, a + 1) ELSE 0
    IN  b > 0 /\ TitleTail(s, b, TitleChars)

\* ^\d+\.\d+\s+[A-Z][a-zA-Z0-9_ ]+$
MatchNumbered2(s) ==
    LET a == DigitsAt(s, 1)
        b == IF a > 0 /\ Ch(s, a) = "." THEN DigitsAt(s, a + 1) ELSE 0
        c == IF b > 0 THEN SpacesAt(s, b) ELSE 0
    IN  c > 0 /\ TitleTail(s, c, TitleChars)

\* ^\d+\.\d+\.\d+\s+[A-Z][a-zA-Z0-9_ ]+$
MatchNumbered3(s) ==
    LET a == DigitsAt(s, 1)
        b == IF a > 0 /\ Ch(s, a) = "." THEN DigitsAt(s, a + 1) ELSE 0
        c == IF b > 0 /\ Ch(s, b) = "." THEN DigitsAt(s, b + 1) ELSE 0
        d == IF c > 0 THEN SpacesAt(s, c) ELSE 0
    IN  d > 0 /\ TitleTail(s, d, TitleChars)

\* ^(Chapter|Section|Part)\s+\d+[:.]?\s+[A-Z][a-zA-Z ]+$
MatchChapter(s) ==
    \E kw \in {"Chapter", "Section", "Part"} :
        /\ StartsWithAt(s, 1, kw)
        /\ LET a == SpacesAt(s, Len(kw) + 1)
               b == IF a > 0 THEN DigitsAt(s, a) ELSE 0
               c == IF b > 0 /\ Ch(s, b) \in {":", "."} THEN b + 1 ELSE b
               d == IF c > 0 THEN SpacesAt(s, c) ELSE 0
           IN  d > 0 /\ TitleTail(s, d, WordChars)

\* ^(Appendix|Annex)\s+[A-Z]?\d*[:.]?\s+[A-Z][a-zA-Z ]+$
\* The first \s+ either takes the whole whitespace run (and then the optional
\* letter, digits and punctuation follow, and a second run), or leaves at
\* least one character of it to the second \s+ (and then all three optional
\* parts are empty).
MatchAppendix(s) ==
    \E kw \in {"Appendix", "Annex"} :
        /\ StartsWithAt(s, 1, kw)
        /\ LET a == SpacesAt(s, Len(kw) + 1)
               b == IF a > 0 /\ Ch(s, a) \in Upper THEN a + 1 ELSE a
               c == IF b > 0 THEN SkipClass(s, b, Digit) ELSE 0
               d == IF c > 0 /\ Ch(s, c) \in {":", "."} THEN c + 1 ELSE c
               e == IF d > 0 THEN SpacesAt(s, d) ELSE 0
           IN  \/ e > 0 /\ TitleTail(s, e, WordChars)
               \/ a > Len(kw) + 2 /\ TitleTail(s, a, WordChars)

\* ^(Table of Contents|References|Bibliography|Index)$
MatchReference(s) ==
    s \in {"Table of Contents", "References", "Bibliography", "Index"}

\* self.heading_patterns, in order
heading_patterns ==
    << <<"numbered1", "H1">>, <<"numbered2", "H2">>, <<"numbered3", "H3">>,
       <<"chapter", "H1">>, <<"appendix", "H1">>, <<"reference", "H1">> >>

\* re.match(pattern, text)
re_match(pattern, text) ==
    CASE pattern = "numbered1" -> MatchNumbered1(text)
      [] pattern = "numbered2" -> MatchNumbered2(text)
      [] pattern = "numbered3" -> MatchNumbered3(text)
      [] pattern = "chapter"   -> MatchChapter(text)
      [] pattern = "appendix"  -> MatchAppendix(text)
      [] pattern = "reference" -> MatchReference(text)

important_heading_words ==
    {"introduction", "background", "methodology", "results", "discussion",
     "conclusion", "recommendations", "abstract", "executive summary",
     "literature review", "findings", "limitations", "future work"}

non_heading_indicators ==
    {"form", "application", "date", "name", "address", "phone", "email",
     "signature", "declaration", "particulars", "required", "closed",
     "parents", "guardians", "waiver", "page", "continued", "note:"}

\* the number of non-overlapping matches of \.{3,}\s*\d+ from index i on
RECURSIVE CountPageRefs(_, _)
CountPageRefs(s, i) ==
    LET a == SkipTo(s, i, {"."})
        b == SkipClass(s, a, {"."})
        c == SkipClass(s, b, Space)
        d == SkipClass(s, c, Digit)
    IN  IF a > Len(s) THEN 0
        ELSE IF b - a >= 3 /\ d > c THEN 1 + CountPageRefs(s, d)
        ELSE CountPageRefs(s, b)

_is_toc_page(raw_text) ==
    IF raw_text = "" THEN FALSE
    ELSE LET text == str_lower(raw_text)
             has_toc_title == \E indicator \in {"table of contents", "contents"} :
                                  Contains(text, indicator)
             has_page_refs == CountPageRefs(text, 1) > 3
         IN  has_toc_title \/ has_page_refs

\* re.search(r'^\d+\.?\s*(name|date|designation|whether|amount|address)', s)
MatchFormField(s) ==
    LET a == DigitsAt(s, 1)
        b == IF a > 0 /\ Ch(s, a) = "." THEN a + 1 ELSE a
        c == IF b > 0 THEN SkipClass(s, b, Space) ELSE 0
    IN  /\ c > 0
        /\ \E w \in {"name", "date", "designation", "whether", "amount", "address"} :
               StartsWithAt(s, c, w)

\* re.search(r'^(page|pp?\.?)\s*\d+', s)
MatchPageRef(s) ==
    \E k \in {"page", "pp.", "pp", "p.", "p"} :
        /\ StartsWithAt(s, 1, k)
        /\ Ch(s, SkipClass(s, Len(k) + 1, Space)) \in Digit

_contains_non_heading_indicators(text) ==
    LET text_lower == str_lower(text)
    IN  \/ MatchFormField(text_lower)
        \/ \E indicator \in non_heading_indicators : Contains(text_lower, indicator)
        \/ Contains(text, "@") \/ Contains(text_lower, "www.") \/ Contains(text_lower, ".com")
        \/ MatchPageRef(text_lower)

\* the level of the first pattern that matches from index k of the list on
RECURSIVE AnalyzeFrom(_, _)
AnalyzeFrom(text, k) ==
    IF k > Len(heading_patterns) THEN None
    ELSE IF re_match(heading_patterns[k][1], text) THEN heading_patterns[k][2]
    ELSE AnalyzeFrom(text, k + 1)

_analyze_patterns(text) == AnalyzeFrom(text, 1)

_looks_like_proper_heading(text) ==
    IF ~(str_istitle(text) \/ (str_isupper(text) /\ Len(text) < 30)) THEN FALSE
    ELSE IF Contains(text, ";") \/ Contains(text, ",") THEN FALSE
    ELSE IF \E p \in {".", ":", "-", "_"} : EndsWith(text, p) THEN FALSE
    ELSE TRUE

_contains_important_heading_word(text) ==
    LET text_lower == str_lower(text)
    IN  \E word \in important_heading_words : Contains(text_lower, word)

\* re.search(r'\.{3,}\s*\d+$', s)
MatchLeaderDots(s) ==
    LET d == SkipClassBack(s, Len(s), Digit)
        w == SkipClassBack(s, d, Space)
    IN  /\ d < Len(s)
        /\ w - SkipClassBack(s, w, {"."}) >= 3

\* re.search(r'^\d+\s+[A-Z]', s)
MatchPlainNumbered(s) ==
    LET a == DigitsAt(s, 1)
        b == IF a > 0 THEN SpacesAt(s, a) ELSE 0
    IN  b > 0 /\ Ch(s, b) \in Upper

\* re.search(r'^[A-Z]\s+\d+$', s)
MatchLetterNumber(s) ==
    LET a == SpacesAt(s, 2)
    IN  /\ Ch(s, 1) \in Upper
        /\ a > 0 /\ a <= Len(s)
        /\ AllIn(s, a, Len(s), Digit)

_is_toc_entry(text) ==
    MatchLeaderDots(text) \/ MatchPlainNumbered(text) \/ MatchLetterNumber(text)

\* re.sub(r'\s+', ' ', s)
RECURSIVE CollapseSpaces(_)
CollapseSpaces(s) ==
    IF s = "" THEN ""
    ELSE IF Ch(s, 1) \in Space
         THEN " " \o CollapseSpaces(SubSeq(s, SkipClass(s, 1, Space), Len(s)))
         ELSE Ch(s, 1) \o CollapseSpaces(Tail(s))

\* re.sub(r'\s*\.{3,}\s*\d+$', '', s)
StripLeaderDots(s) ==
    LET d  == SkipClassBack(s, Len(s), Digit)
        w  == SkipClassBack(s, d, Space)
        p  == SkipClassBack(s, w, {"."})
        ws == SkipClassBack(s, p, Space)
    IN  IF d < Len(s) /\ w - p >= 3 THEN SubSeq(s, 1, ws) ELSE s

\* re.sub(r'\s+\d+$', '', s)
StripTrailingNumber(s) ==
    LET d == SkipClassBack(s, Len(s), Digit)
        w == SkipClassBack(s, d, Space)
    IN  IF d < Len(s) /\ w < d THEN SubSeq(s, 1, w) ELSE s

\* a variant: the numbering form taken to need three parts, ^\d+\.\d+\.\d
MatchSubNumberingThreeParts(s) ==
    LET a == DigitsAt(s, 1)
        b == IF a > 0 /\ Ch(s, a) = "." THEN DigitsAt(s, a + 1) ELSE 0
    IN  b > 0 /\ Ch(s, b) = "." /\ Ch(s, b + 1) \in Digit

\* re.match(r'^\d+\.\d', s)
MatchSubNumbering(s) ==
    LET a == DigitsAt(s, 1)
    IN  a > 0 /\ Ch(s, a) = "." /\ Ch(s, a + 1) \in Digit

\* a variant: only the digits removed, re.sub(r'^\d+', '', s)
StripLeadingDigits(s) ==
    LET a == DigitsAt(s, 1)
    IN  IF a > 0 THEN SubSeq(s, a, Len(s)) ELSE s

\* re.sub(r'^\d+[\s.)]*', '', s)
StripLeadingNumber(s) ==
    LET a == DigitsAt(s, 1)
    IN  IF a > 0
        THEN SubSeq(s, SkipClass(s, a, Space \cup {".", ")"}), Len(s))
        ELSE s

_clean_heading_text(text) ==
    LET t1 == CollapseSpaces(text)
        t2 == StripLeaderDots(t1)
        t3 == StripTrailingNumber(t2)
        t4 == IF ~MatchSubNumbering(t3) THEN StripLeadingNumber(t3) ELSE t3
    IN  str_strip(t4)

----------------------------------------------------------------------------
(* The texts of the input files, and what the detector's text functions    *)
(* say of each, tabulated once.                                            *)

Body == "alpha beta gamma delta epsilon zeta eta theta iota kappa\n"
        \o "lambda mu nu xi omicron pi rho sigma tau upsilon"

\* extract_text() of a page
PageTexts ==
    { "1. Project Scope\n1.2 Background Research\n" \o Body,
      "Table of Contents\n1. Project Scope.......3\nIntro.......3\nIntro.......3\n"
          \o "Intro.......3\nIntro.......3\nIntro.......3\n" \o Body,
      "References\nIndex\n1. Project Scope\n" \o Body,
      "1. Project Scope",
      "\nPage 2\nIndex",
      "" }

Line(text, font_size, is_bold) ==
    [text |-> text, font_size |-> font_size, is_bold |-> is_bold]

\* the glyph lines of a page
PageLines ==
    { Line("1. Project Scope", 12, FALSE),
      Line("1.2 Background Research", 12, FALSE),
      Line("1. Introduction", 12, FALSE),
      Line("1. Q A", 12, FALSE),
      Line("alpha beta gamma", 12, FALSE) }

\* [c for c in s if c in C]
RECURSIVE KeepChars(_, _)
KeepChars(s, C) ==
    IF s = "" THEN ""
    ELSE (IF Ch(s, 1) \in C THEN Ch(s, 1) ELSE "") \o KeepChars(Tail(s), C)

\* re.sub(r'[^\w\s\-.,;:()’]', '', s) keeps these (ASCII texts)
CleanTextChars == Letter \cup Digit \cup Space \cup {"_", "-", ".", ",", ";", ":", "(", ")"}

_clean_text(text) ==
    IF text = "" THEN ""
    ELSE str_strip(KeepChars(CollapseSpaces(text), CleanTextChars))

\* re.search(r'page\s*\d+|confidential|copyright', s)
MatchTitleNoise(s) ==
    \/ \E i \in 1..Len(s) :
          /\ StartsWithAt(s, i, "page")
          /\ Ch(s, SkipClass(s, i + 4, Space)) \in Digit
    \/ Contains(s, "confidential")
    \/ Contains(s, "copyright")

\* the indicator for the copyright sign is no ASCII text and is left out
_looks_like_header_footer(text) ==
    LET text_lower == str_lower(text)
    IN  \E indicator \in {"page", "confidential", "copyright", "proprietary",
                          "draft", "version", "date:"} :
            Contains(text_lower, indicator)

_looks_like_form_content(text) ==
    LET text_lower == str_lower(text)
    IN  \/ MatchFormField(text_lower)
        \/ \E pattern \in {"rsvp:", "signature", "form", "application", "required"} :
               Contains(text_lower, pattern)

junk_indicators ==
    {"table of contents", "contents", "references", "bibliography", "index",
     "acknowledgements", "revision history"}

_is_junk_page(text) ==
    IF text = "" THEN TRUE
    ELSE LET text_lower == str_lower(text)
             matches == Cardinality({indicator \in junk_indicators :
                                        Contains(text_lower, indicator)})
         IN  matches >= 2

\* re.sub(r'[^a-zA-Z0-9]', '', text.lower())
_normalize_heading_text(text) == KeepChars(str_lower(text), Letter \cup Digit)

\* [line.strip() for line in text.split('\n') if line.strip()]
FallbackLines(text) ==
    SelectSeq([i \in 1..Len(SplitLines(text)) |-> str_strip(SplitLines(text)[i])],
              LAMBDA l : l # "")

PageTextFacts(raw_text) ==
    [words |-> WordCount(raw_text),
     toc_page |-> _is_toc_page(raw_text),
     junk_page |-> _is_junk_page(raw_text),
     fallback_lines |-> FallbackLines(raw_text),
     first_line |-> str_strip(SplitLines(raw_text)[1])]

PageTextTable == [t \in PageTexts |-> PageTextFacts(t)]

OfPageText(raw_text) == PageTextTable[raw_text]

\* the texts of the blocks detect_headings is tried on by itself
DetectTexts ==
    { "1. Introduction",
      "1.  Big  Title",
      "1. Phase 2",
      "1.2 Background Research",
      "1.2 Phase 2",
      "1.2.3 Results Summary",
      "Chapter 1 Page Layout",
      "2. Name Of Project",
      "Name: _____________",
      "see www.x.org",
      "Project Overview",
      "Project Results",
      "12 Results",
      "alpha beta gamma" }

FontSizes == {12, 36}

LineTextFacts(text) == [stripped |-> str_strip(text), cleaned |-> _clean_text(text)]

LineTexts == {l.text : l \in PageLines}

LineTextTable == [t \in LineTexts |-> LineTextFacts(t)]

OfLineText(text) == LineTextTable[text]

BlockTextFacts(text) ==
    [stripped |-> str_strip(text),
     non_heading |-> _contains_non_heading_indicators(str_strip(text)),
     pattern_level |-> _analyze_patterns(str_strip(text)),
     clean |-> _clean_heading_text(str_strip(text)),
     proper_heading |-> _looks_like_proper_heading(str_strip(text)),
     important_word |-> _contains_important_heading_word(str_strip(text)),
     toc_entry |-> _is_toc_entry(str_strip(text)),
     title_noise |-> MatchTitleNoise(str_lower(text)),
     header_footer |-> _looks_like_header_footer(str_strip(text)),
     form_content |-> _looks_like_form_content(str_strip(text))]

\* the block texts the input files give rise to: DetectTexts, the lines of
\* PageLines and the lines the fallback splits PageTexts into
BlockTexts ==
    { "1. Introduction", "1.  Big  Title", "1. Phase 2",
      "1.2 Background Research", "1.2 Phase 2", "1.2.3 Results Summary",
      "Chapter 1 Page Layout", "2. Name Of Project", "Name: _____________",
      "see www.x.org", "Project Overview", "Project Results", "12 Results",
      "alpha beta gamma",
      "1. Project Scope", "1. Q A", "Page 2",
      "Table of Contents", "References", "Index",
      "1. Project Scope.......3", "Intro.......3",
      "alpha beta gamma delta epsilon zeta eta theta iota kappa",
      "lambda mu nu xi omicron pi rho sigma tau upsilon" }

BlockTextTable == [t \in BlockTexts |-> BlockTextFacts(t)]

OfBlockText(text) == BlockTextTable[text]

HeadingTextFacts(text) ==
    [words |-> WordCount(text),
     isdigit |-> str_isdigit(text),
     lower |-> str_lower(text),
     normalized |-> _normalize_heading_text(text)]

\* the heading texts the input files give rise to: what
\* _clean_heading_text makes of BlockTexts
HeadingTexts ==
    { "Introduction", "Big Title", "Phase", "1.2 Background Research",
      "1.2 Phase", "1.2.3 Results Summary", "Chapter 1 Page Layout",
      "Name Of Project", "Name: _____________", "see www.x.org",
      "Project Overview", "Project Results", "Results", "alpha beta gamma",
      "Project Scope", "Q A", "Table of Contents", "References", "Index", "Intro",
      "alpha beta gamma delta epsilon zeta eta theta iota kappa",
      "lambda mu nu xi omicron pi rho sigma tau upsilon" }

HeadingTextTable == [t \in HeadingTexts |-> HeadingTextFacts(t)]

OfHeadingText(text) == HeadingTextTable[text]

----------------------------------------------------------------------------
(* HeadingDetector.detect_headings                                         *)

RECURSIVE SumSeq(_)
SumSeq(q) == IF q = <<>> THEN 0 ELSE Head(q) + SumSeq(Tail(q))

MaxSeq(q) == CHOOSE m \in {q[i] : i \in 1..Len(q)} : \A i \in 1..Len(q) : q[i] <= m

\* [f(x) for x in q]
MapSeq(f(_), q) == [i \in 1..Len(q) |-> f(q[i])]

\* itertools.chain: the concatenation of a sequence of sequences
RECURSIVE Flatten(_)
Flatten(qq) == IF qq = <<>> THEN <<>> ELSE Head(qq) \o Flatten(Tail(qq))

Heading(level, text, page, position) ==
    [level |-> level, text |-> text, page |-> page, position |-> position]

\* a variant of the comparison: strictly above the threshold
AboveFontSizeThreshold(font_size, total, n) == 2 * font_size * n > 3 * total

\* font_size >= avg_font_size * 1.5, with avg_font_size = total / n
AtFontSizeThreshold(font_size, total, n) == 2 * font_size * n >= 3 * total

\* font_size >= max_font_size * 0.9
NearMaxFontSize(font_size, max_font_size) == 10 * font_size >= 9 * max_font_size

\* font_size > avg_font_size * 1.2
AboveKeywordFontSize(font_size, total, n) == 5 * font_size * n > 6 * total

\* a variant of the iteration: the font/format detector is tried before the
\* patterns
DetectBlockFontFirst(block, facts, i, page_num, total, n, max_font_size) ==
    LET text      == facts.stripped
        font_size == block.font_size
        is_bold   == block.is_bold
    IN  IF text = "" \/ Len(text) < 4 \/ Len(text) > 120 THEN <<>>
        ELSE IF facts.non_heading THEN <<>>
        ELSE IF /\ AtFontSizeThreshold(font_size, total, n)
                /\ is_bold
                /\ facts.proper_heading
        THEN <<Heading(IF NearMaxFontSize(font_size, max_font_size)
                       THEN "H1" ELSE "H2",
                       facts.clean, page_num, i)>>
        ELSE IF facts.pattern_level # None
        THEN <<Heading(facts.pattern_level, facts.clean, page_num, i)>>
        ELSE IF /\ facts.important_word
                /\ ~facts.toc_entry
                /\ AboveKeywordFontSize(font_size, total, n)
        THEN <<Heading("H2", facts.clean, page_num, i)>>
        ELSE <<>>

\* a variant of the iteration: the non-heading indicators are looked for
\* only after the patterns
DetectBlockGateAfterPatterns(block, facts, i, page_num, total, n, max_font_size) ==
    LET text      == facts.stripped
        font_size == block.font_size
        is_bold   == block.is_bold
    IN  IF text = "" \/ Len(text) < 4 \/ Len(text) > 120 THEN <<>>
        ELSE IF facts.pattern_level # None
        THEN <<Heading(facts.pattern_level, facts.clean, page_num, i)>>
        ELSE IF facts.non_heading THEN <<>>
        ELSE IF /\ AtFontSizeThreshold(font_size, total, n)
                /\ is_bold
                /\ facts.proper_heading
        THEN <<Heading(IF NearMaxFontSize(font_size, max_font_size)
                       THEN "H1" ELSE "H2",
                       facts.clean, page_num, i)>>
        ELSE IF /\ facts.important_word
                /\ ~facts.toc_entry
                /\ AboveKeywordFontSize(font_size, total, n)
        THEN <<Heading("H2", facts.clean, page_num, i)>>
        ELSE <<>>

\* One iteration of the loop over enumerate(text_blocks): what it appends to
\* headings for block number i (from 0); facts is what the text functions
\* say of the block's text.  Every detector that fires ends the
\* iteration (continue), so the next one runs only if the ones before did not.
DetectBlock(block, facts, i, page_num, total, n, max_font_size) ==
    LET text      == facts.stripped
        font_size == block.font_size
        is_bold   == block.is_bold
    IN  IF text = "" \/ Len(text) < 4 \/ Len(text) > 120 THEN <<>>
        ELSE IF facts.non_heading THEN <<>>
        ELSE LET pattern_level == facts.pattern_level
             IN  IF pattern_level # None
                 THEN <<Heading(pattern_level, facts.clean, page_num, i)>>
                 ELSE IF /\ AtFontSizeThreshold(font_size, total, n)
                         /\ is_bold
                         /\ facts.proper_heading
                 THEN <<Heading(IF NearMaxFontSize(font_size, max_font_size)
                                THEN "H1" ELSE "H2",
                                facts.clean, page_num, i)>>
                 ELSE IF /\ facts.important_word
                         /\ ~facts.toc_entry
                         /\ AboveKeywordFontSize(font_size, total, n)
                 THEN <<Heading("H2", facts.clean, page_num, i)>>
                 ELSE <<>>

detect_headings(blocks, page_num) ==
    IF blocks = <<>> THEN <<>>
    ELSE LET sized      == SelectSeq(blocks, LAMBDA b : b.font_size # 0)
             font_sizes == [k \in 1..Len(sized) |-> sized[k].font_size]
         IN  IF font_sizes = <<>> THEN <<>>
             ELSE Flatten([k \in 1..Len(blocks) |->
                      DetectBlock(blocks[k], OfBlockText(blocks[k].text), k - 1,
                                  page_num, SumSeq(font_sizes),
                                  Len(font_sizes), MaxSeq(font_sizes))])

----------------------------------------------------------------------------
(* pdf_processor.py: class PDFProcessor, the one app.py imports.           *)
(*                                                                         *)
(* A pdf is what the two parsing libraries yield for the file:             *)
(*   pages            per page, text (extract_text()) and lines: the       *)
(*                    page's glyphs as _group_chars_into_lines groups      *)
(*                    them, each line with its concatenated text, the      *)
(*                    mean of its glyph sizes and whether a glyph is bold  *)
(*   primary_fails    pdfplumber raises on the file                        *)
(*   fallback_fails_at  0, or the page on which PyPDF2 raises              *)
(* y_position is written into every block and read nowhere: left out.      *)

TextBlock(text, font_size, is_bold) ==
    [text |-> text, font_size |-> font_size, is_bold |-> is_bold]

PageRecord(page_number, blocks, raw_text) ==
    [page_number |-> page_number, text_blocks |-> blocks, raw_text |-> raw_text]

_extract_text_blocks(lines) ==
    LET kept == SelectSeq(lines, LAMBDA l : OfLineText(l.text).stripped # "")
    IN  [k \in 1..Len(kept) |->
            TextBlock(OfLineText(kept[k].text).stripped, kept[k].font_size,
                      kept[k].is_bold)]

\* the pdfplumber loop of _extract_pages_data from page k on
RECURSIVE PrimaryPagesFrom(_, _)
PrimaryPagesFrom(pages, k) ==
    IF k > Len(pages) THEN <<>>
    ELSE LET text == pages[k].text
         IN  IF OfPageText(text).words < 20 \/ pages[k].lines = <<>>
             THEN PrimaryPagesFrom(pages, k + 1)
             ELSE <<PageRecord(k, _extract_text_blocks(pages[k].lines), text)>>
                  \o PrimaryPagesFrom(pages, k + 1)

\* the lines of a page's text as the fallback makes blocks of them
FallbackBlocks(text) ==
    LET lines == OfPageText(text).fallback_lines
    IN  [i \in 1..Len(lines) |-> TextBlock(lines[i], 12, FALSE)]

\* the PyPDF2 loop from page k up to page last
RECURSIVE FallbackPagesFrom(_, _, _)
FallbackPagesFrom(pages, k, last) ==
    IF k > last THEN <<>>
    ELSE IF pages[k].text = "" THEN FallbackPagesFrom(pages, k + 1, last)
    ELSE <<PageRecord(k, FallbackBlocks(pages[k].text), pages[k].text)>>
         \o FallbackPagesFrom(pages, k + 1, last)

\* returns the pages read before PyPDF2 raised, if it did
_extract_pages_data_fallback(file) ==
    LET last == IF file.fallback_fails_at = 0 THEN Len(file.pages)
                ELSE file.fallback_fails_at - 1
    IN  [pages_data |-> FallbackPagesFrom(file.pages, 1, last),
         log |-> IF file.fallback_fails_at = 0 THEN <<>>
                 ELSE <<"Fallback extraction failed">>]

_extract_pages_data(file) ==
    IF file.primary_fails
    THEN LET fb == _extract_pages_data_fallback(file)
         IN  [pages_data |-> fb.pages_data,
              log |-> <<"pdfplumber failed">> \o fb.log]
    ELSE [pages_data |-> PrimaryPagesFrom(file.pages, 1), log |-> <<>>]

\* sorted(q) of numbers
RECURSIVE InsertSorted(_, _)
InsertSorted(x, q) ==
    IF q = <<>> THEN <<x>>
    ELSE IF x < Head(q) THEN <<x>> \o q
    ELSE <<Head(q)>> \o InsertSorted(x, Tail(q))

RECURSIVE Sorted(_)
Sorted(q) ==
    IF q = <<>> THEN <<>>
    ELSE InsertSorted(q[Len(q)], Sorted(SubSeq(q, 1, Len(q) - 1)))

font_size_percentile == 75

\* 100 * statistics.quantiles(data, n=100)[font_size_percentile - 1], method
\* 'exclusive', for two data points or more
QuantileTimes100(font_sizes) ==
    LET data  == Sorted(font_sizes)
        ld    == Len(data)
        m     == ld + 1
        j0    == (font_size_percentile * m) \div 100
        j     == IF j0 < 1 THEN 1 ELSE IF j0 > ld - 1 THEN ld - 1 ELSE j0
        delta == font_size_percentile * m - j * 100
    IN  data[j] * (100 - delta) + data[j + 1] * delta

\* candidates.sort(key=lambda x: (-x[0], -x[1], -len(x[2]))): x before y
TitleBefore(x, y) ==
    \/ x.font_size > y.font_size
    \/ /\ x.font_size = y.font_size
       /\ \/ x.is_bold /\ ~y.is_bold
          \/ x.is_bold = y.is_bold /\ Len(x.text) > Len(y.text)

\* candidates[0] after the (stable) sort
BestCandidate(candidates) ==
    LET k == CHOOSE k \in 1..Len(candidates) :
                 /\ \A l \in 1..Len(candidates) : ~TitleBefore(candidates[l], candidates[k])
                 /\ \A l \in 1..(k - 1) : TitleBefore(candidates[l], candidates[k])
                                           \/ TitleBefore(candidates[k], candidates[l])
    IN  candidates[k].text

Returned(value) == [raised |-> FALSE, value |-> value]

Raised(exception) == [raised |-> TRUE, value |-> exception]

\* text_blocks[:limit]
FirstBlocks(blocks, limit) ==
    SubSeq(blocks, 1, IF Len(blocks) < limit THEN Len(blocks) ELSE limit)

\* [b['font_size'] for b in blocks]
FontSizesOf(blocks) == [k \in 1..Len(blocks) |-> blocks[k].font_size]

\* 100 * size_threshold: quantiles of a single data point, where it does not
\* raise, is that point repeated
SizeThreshold100(font_sizes) ==
    IF Len(font_sizes) < 2 THEN 100 * font_sizes[1]
    ELSE QuantileTimes100(font_sizes)

\* the loop that collects candidates
TitleCandidates(blocks, size_threshold100) ==
    SelectSeq(blocks, LAMBDA b :
        /\ Len(b.text) > 5
        /\ 100 * b.font_size >= size_threshold100
        /\ ~OfBlockText(b.text).title_noise)

\* the best candidate, else the first line of the page, else the placeholder
TitleFrom(candidates, first_line) ==
    IF candidates # <<>> THEN Returned(BestCandidate(candidates))
    ELSE IF first_line # "" THEN Returned(first_line)
    ELSE Returned("Untitled Document")

\* quantiles_strict: statistics.quantiles raises StatisticsError on a single
\* data point (Python before 3.13)
TitleOfBlocks(blocks, font_sizes, raw_text, quantiles_strict) ==
    IF blocks = <<>> THEN Returned("Untitled Document")
    ELSE IF Len(font_sizes) < 2 /\ quantiles_strict THEN Raised("StatisticsError")
    ELSE TitleFrom(TitleCandidates(blocks, SizeThreshold100(font_sizes)),
                   OfPageText(raw_text).first_line)

TitleOfFirstPage(blocks, raw_text, quantiles_strict) ==
    TitleOfBlocks(blocks, FontSizesOf(blocks), raw_text, quantiles_strict)

_extract_title(pages_data, quantiles_strict) ==
    IF pages_data = <<>> THEN Returned("Untitled Document")
    ELSE TitleOfFirstPage(FirstBlocks(pages_data[1].text_blocks, 5),
                          pages_data[1].raw_text, quantiles_strict)

\* sorted(q, key=lambda x: (x['page'], x.get('position', 0))), stable
RECURSIVE InsertHeading(_, _)
InsertHeading(h, q) ==
    IF q = <<>> THEN <<h>>
    ELSE LET g == q[Len(q)]
         IN  IF h.page < g.page \/ (h.page = g.page /\ h.position < g.position)
             THEN InsertHeading(h, SubSeq(q, 1, Len(q) - 1)) \o <<g>>
             ELSE q \o <<h>>

\* a variant of the sort: the key is the position alone
RECURSIVE InsertByPosition(_, _)
InsertByPosition(h, q) ==
    IF q = <<>> THEN <<h>>
    ELSE LET g == q[Len(q)]
         IN  IF h.position < g.position
             THEN InsertByPosition(h, SubSeq(q, 1, Len(q) - 1)) \o <<g>>
             ELSE q \o <<h>>

RECURSIVE SortHeadingsByPosition(_)
SortHeadingsByPosition(q) ==
    IF q = <<>> THEN <<>>
    ELSE InsertByPosition(q[Len(q)], SortHeadingsByPosition(SubSeq(q, 1, Len(q) - 1)))

RECURSIVE SortHeadings(_)
SortHeadings(q) ==
    IF q = <<>> THEN <<>>
    ELSE InsertHeading(q[Len(q)], SortHeadings(SubSeq(q, 1, Len(q) - 1)))

\* key = (heading['text'], heading['page'])
TextPageKey(heading) == <<heading.text, heading.page>>

\* the loop that keeps the first heading of every key
RECURSIVE Deduplicate(_, _)
Deduplicate(q, seen) ==
    IF q = <<>> THEN <<>>
    ELSE IF TextPageKey(Head(q)) \in seen THEN Deduplicate(Tail(q), seen)
    ELSE <<Head(q)>> \o Deduplicate(Tail(q), seen \cup {TextPageKey(Head(q))})

\* what one page adds to all_headings
PageHeadings(page_data) ==
    IF OfPageText(page_data.raw_text).toc_page THEN <<>>
    ELSE SelectSeq(detect_headings(page_data.text_blocks, page_data.page_number),
                   LAMBDA h : OfHeadingText(h.text).words > 1 /\ ~OfHeadingText(h.text).isdigit)

_extract_headings(pages_data) ==
    LET all_headings == Flatten(MapSeq(PageHeadings, pages_data))
    IN  Deduplicate(SortHeadings(all_headings), {})

EmptyResult == [title |-> "", outline |-> <<>>]

\* The body of the try block, given the title step's outcome: an exception
\* of the title step leaves the block before the headings step
TryBodyWith(title, pages_data, log) ==
    IF title.raised
    THEN [raised |-> TRUE, result |-> EmptyResult, log |-> log]
    ELSE [raised |-> FALSE,
          result |-> [title |-> title.value, outline |-> _extract_headings(pages_data)],
          log |-> log]

TryBody(extracted, quantiles_strict) ==
    TryBodyWith(_extract_title(extracted.pages_data, quantiles_strict),
                extracted.pages_data, extracted.log)

\* except Exception: log the error and return the empty result
ExceptHandler(outcome) ==
    IF outcome.raised
    THEN [raised |-> FALSE, result |-> EmptyResult,
          log |-> outcome.log \o <<"Error processing PDF">>]
    ELSE outcome

\* a variant of the call: the three steps without the try block around them
extract_outline_unguarded(file, quantiles_strict) ==
    TryBody(_extract_pages_data(file), quantiles_strict)

\* The call's outcome: raised (an exception leaves the call), else the value
\* returned; and the messages logged.  The try block spans the three steps
\* and the handler returns the empty result, so nothing leaves the call.
extract_outline(file, quantiles_strict) ==
    ExceptHandler(TryBody(_extract_pages_data(file), quantiles_strict))

----------------------------------------------------------------------------
(* heading_detector.py: class PDFProcessor, the second implementation      *)
(* (suffix HD).  Its fallback extraction is the same as the first class's. *)

_extract_text_blocksHD(lines) ==
    LET kept == SelectSeq(lines, LAMBDA l : OfLineText(l.text).cleaned # "")
    IN  [k \in 1..Len(kept) |->
            TextBlock(OfLineText(kept[k].text).cleaned, kept[k].font_size,
                      kept[k].is_bold)]

RECURSIVE PrimaryPagesFromHD(_, _)
PrimaryPagesFromHD(pages, k) ==
    IF k > Len(pages) THEN <<>>
    ELSE LET text == pages[k].text
         IN  IF text = "" \/ OfPageText(text).words < 20 \/ pages[k].lines = <<>>
             THEN PrimaryPagesFromHD(pages, k + 1)
             ELSE <<PageRecord(k, _extract_text_blocksHD(pages[k].lines), text)>>
                  \o PrimaryPagesFromHD(pages, k + 1)

_extract_pages_dataHD(file) ==
    IF file.primary_fails
    THEN LET fb == _extract_pages_data_fallback(file)
         IN  [pages_data |-> fb.pages_data,
              log |-> <<"Error using pdfplumber">> \o fb.log]
    ELSE [pages_data |-> PrimaryPagesFromHD(file.pages, 1), log |-> <<>>]

\* block['text'].strip() of every block
StrippedBlocks(blocks) ==
    [k \in 1..Len(blocks) |->
        TextBlock(OfBlockText(blocks[k].text).stripped, blocks[k].font_size,
                  blocks[k].is_bold)]

TitleCandidatesHD(stripped) ==
    SelectSeq(stripped, LAMBDA b :
        /\ Len(b.text) > 5
        /\ ~OfBlockText(b.text).header_footer
        /\ ~OfBlockText(b.text).form_content)

TitleFromHD(candidates) ==
    IF candidates # <<>> THEN BestCandidate(candidates) ELSE ""

_extract_titleHD(pages_data) ==
    IF pages_data = <<>> THEN ""
    ELSE TitleFromHD(TitleCandidatesHD(StrippedBlocks(
             FirstBlocks(pages_data[1].text_blocks, 10))))

\* the inner loop, over the headings of all pages in turn: seen_text is
\* carried from one heading to the next and from one page to the next
RECURSIVE KeepUnseen(_, _)
KeepUnseen(q, seen_text) ==
    IF q = <<>> THEN <<>>
    ELSE IF /\ Head(q).text # ""
            /\ OfHeadingText(Head(q).text).words >= 2
            /\ OfHeadingText(Head(q).text).lower \notin seen_text
    THEN <<Head(q)>>
         \o KeepUnseen(Tail(q), seen_text \cup {OfHeadingText(Head(q).text).lower})
    ELSE KeepUnseen(Tail(q), seen_text)

\* what detect_headings finds on one page, none on a junk page
PageHeadingsHD(page_data) ==
    IF OfPageText(page_data.raw_text).junk_page THEN <<>>
    ELSE detect_headings(page_data.text_blocks, page_data.page_number)

_extract_headingsHD(pages_data) ==
    KeepUnseen(Flatten(MapSeq(PageHeadingsHD, pages_data)), {})

\* "Remove duplicate headings at different levels"
RECURSIVE UniqueHeadings(_, _)
UniqueHeadings(q, seen_text) ==
    IF q = <<>> THEN <<>>
    ELSE LET clean_text == OfHeadingText(Head(q).text).normalized
         IN  IF clean_text \notin seen_text
             THEN <<Head(q)>> \o UniqueHeadings(Tail(q), seen_text \cup {clean_text})
             ELSE UniqueHeadings(Tail(q), seen_text)

\* "Remove headings that are too short or generic"
NotTooShortOrGeneric(heading) ==
    ~ \/ OfHeadingText(heading.text).words < 2
      \/ Len(heading.text) < 5
      \/ OfHeadingText(heading.text).lower \in {"overview", "introduction", "conclusion"}

\* "Ensure logical hierarchy": current_h1 is None or the last H1's text, and
\* a text is truthy when it is not empty
RECURSIVE EnsureHierarchy(_, _)
EnsureHierarchy(q, current_h1) ==
    IF q = <<>> THEN <<>>
    ELSE IF Head(q).level = "H1"
    THEN <<Head(q)>> \o EnsureHierarchy(Tail(q), Head(q).text)
    ELSE IF current_h1 # None /\ current_h1 # ""
    THEN <<Head(q)>> \o EnsureHierarchy(Tail(q), current_h1)
    ELSE EnsureHierarchy(Tail(q), current_h1)

_filter_headings(found) ==
    IF found = <<>> THEN <<>>
    ELSE EnsureHierarchy(SelectSeq(UniqueHeadings(found, {}), NotTooShortOrGeneric), None)

\* the title and the filtered headings of the pages extracted
ResultHD(extracted) ==
    [raised |-> FALSE,
     result |-> [title |-> _extract_titleHD(extracted.pages_data),
                 outline |-> _filter_headings(_extract_headingsHD(extracted.pages_data))],
     log |-> extracted.log]

extract_outlineHD(file) == ResultHD(_extract_pages_dataHD(file))

----------------------------------------------------------------------------
(* app.py: process_pdfs                                                    *)

\* json.dump of a dict: every key of it, in insertion order, with its value
JsonObject(heading) ==
    << <<"level", heading.level>>, <<"text", heading.text>>,
       <<"page", heading.page>>, <<"position", heading.position>> >>

JsonResult(result) ==
    [title |-> result.title, outline |-> MapSeq(JsonObject, result.outline)]

\* pdf_file.stem
Stem == "file"

FallbackArtifact == [title |-> "Document: " \o Stem, outline |-> <<>>]

NoArtifact == [title |-> None, outline |-> <<>>]

\* the body of the loop over pdf_files: write_fails is open() or json.dump
\* raising
WriteOutput(outcome, write_fails) ==
    IF outcome.raised \/ write_fails THEN FallbackArtifact
    ELSE JsonResult(outcome.result)

----------------------------------------------------------------------------
(* The input files.                                                        *)

MaxPages == 2

MaxLines == 2

\* all sequences over S of length at most n
SeqUpTo(S, n) == UNION {[1..k -> S] : k \in 0..n}

Pages == {[text |-> t, lines |-> l] : t \in PageTexts, l \in SeqUpTo(PageLines, MaxLines)}

File(pages, primary_fails, fallback_fails_at) ==
    [pages |-> pages, primary_fails |-> primary_fails,
     fallback_fails_at |-> fallback_fails_at]

\* every way the parsers can behave on a document of at most MaxPages pages
FilesOf(pages) ==
    {File(pages, FALSE, 0)} \cup {File(pages, TRUE, k) : k \in 0..Len(pages)}

NoCall == [raised |-> FALSE, result |-> EmptyResult, log |-> <<>>]

\* a file of the input directory, before anything ran on it
Init ==
    /\ \E pages \in SeqUpTo(Pages, MaxPages) : pdf \in FilesOf(pages)
    /\ impl = None
    /\ call = NoCall
    /\ artifact = NoArtifact
    /\ arg = None
    /\ ret = <<>>
    /\ text_blocks = <<>>
    /\ headings = <<>>

\* one iteration of the driver's loop over the input directory; nothing is
\* kept from one file to the next
ProcessPdf ==
    /\ impl = None
    /\ impl' = "pdf_processor"
    /\ \E quantiles_strict \in BOOLEAN :
         call' = extract_outline(pdf, quantiles_strict)
    /\ \E write_fails \in BOOLEAN :
         artifact' = WriteOutput(call', write_fails)
    /\ UNCHANGED <<pdf, text_blocks, headings, arg, ret>>

\* a call of the second class's extract_outline; no driver writes its result
CallExtractOutlineHD ==
    /\ impl = None
    /\ impl' = "heading_detector"
    /\ call' = extract_outlineHD(pdf)
    /\ UNCHANGED <<pdf, artifact, text_blocks, headings, arg, ret>>

Next == ProcessPdf \/ CallExtractOutlineHD

Spec == Init /\ [][Next]_vars

----------------------------------------------------------------------------
(* detect_headings by itself, on one page's blocks.                        *)

MaxBlocks == 2

\* font sizes are positive: a glyph line has the mean size of its glyphs
DetectBlocks ==
    {TextBlock(t, f, b) : t \in DetectTexts, f \in FontSizes, b \in BOOLEAN}

\* the blocks of a page, before detect_headings ran on them
InitDetect ==
    /\ text_blocks \in SeqUpTo(DetectBlocks, MaxBlocks)
    /\ headings = <<>>
    /\ impl = None
    /\ pdf = File(<<>>, FALSE, 0)
    /\ call = NoCall
    /\ artifact = NoArtifact
    /\ arg = None
    /\ ret = <<>>

DetectHeadings ==
    /\ impl = None
    /\ \E page_num \in 1..MaxPages :
         headings' = detect_headings(text_blocks, page_num)
    /\ impl' = "detect_headings"
    /\ UNCHANGED <<pdf, call, artifact, text_blocks, arg, ret>>

NextDetect == DetectHeadings

SpecDetect == InitDetect /\ [][NextDetect]_vars

----------------------------------------------------------------------------
(* Properties of extract_outline's result (Spec).                          *)

Outline == call.result.outline

\* the page records extract_outline of the class that ran worked on
PagesData ==
    IF impl = "heading_detector" THEN _extract_pages_dataHD(pdf).pages_data
    ELSE _extract_pages_data(pdf).pages_data

\* C1: in the outline extract_outline returns, every H2 or H3 has an H1
\* somewhere before it: none stands before the first H1.
C1_NoSubheadingBeforeFirstH1 ==
    impl # None =>
        \A i \in 1..Len(Outline) :
            Outline[i].level \in {"H2", "H3"} =>
                \E j \in 1..(i - 1) : Outline[j].level = "H1"

\* C2: the outline extract_outline returns is non-decreasing in (page,
\* position): of two consecutive entries the first is on an earlier page, or
\* on the same page at no later a position.
C2_OutlineOrdered ==
    impl # None =>
        \A i \in 1..(Len(Outline) - 1) :
            \/ Outline[i].page < Outline[i + 1].page
            \/ /\ Outline[i].page = Outline[i + 1].page
               /\ Outline[i].position <= Outline[i + 1].position

\* the driver's class returned an outline with two entries of one page and
\* an entry of a later page
C2_Witness ==
    /\ impl = "pdf_processor"
    /\ Len(Outline) >= 3
    /\ Outline[1].page = Outline[2].page
    /\ Outline[1].position < Outline[2].position
    /\ Outline[2].page < Outline[3].page

\* the headings detect_headings finds on the page records no page check
\* flags, in the order of the pages
Detected ==
    Flatten(MapSeq(LAMBDA pd :
                     IF \/ OfPageText(pd.raw_text).toc_page
                        \/ OfPageText(pd.raw_text).junk_page
                     THEN <<>>
                     ELSE detect_headings(pd.text_blocks, pd.page_number),
                   PagesData))

EntriesFor(text, page) ==
    {i \in 1..Len(Outline) : Outline[i].text = text /\ Outline[i].page = page}

\* C3: deduplication is keyed on (text, page): a text detected on two
\* different pages has two entries in the outline, one per page, and a text
\* detected twice on one page has exactly one entry for that page, the first
\* by position.
C3_OneEntryPerTextAndPage ==
    impl # None =>
        \A i, j \in 1..Len(Detected) :
            i < j /\ Detected[i].text = Detected[j].text =>
                LET a == Detected[i]
                    b == Detected[j]
                IN  IF a.page # b.page
                    THEN /\ Cardinality(EntriesFor(a.text, a.page)) = 1
                         /\ Cardinality(EntriesFor(b.text, b.page)) = 1
                    ELSE /\ Cardinality(EntriesFor(a.text, a.page)) = 1
                         /\ \A k \in EntriesFor(a.text, a.page) :
                                Outline[k].position <= a.position

\* the keys of a serialized object, in the order they are written
Keys(object) == [k \in 1..Len(object) |-> object[k][1]]

Value(object, key) ==
    LET k == CHOOSE k \in 1..Len(object) : object[k][1] = key
    IN  object[k][2]

\* C4: every outline entry of the artifact the driver writes has exactly the
\* keys level, text and page, with a level of H1..H3 and a page >= 1: the
\* position index is not serialized.
C4_ExactlyLevelTextPage ==
    impl = "pdf_processor" =>
        \A i \in 1..Len(artifact.outline) :
            /\ Keys(artifact.outline[i]) = <<"level", "text", "page">>
            /\ Value(artifact.outline[i], "level") \in {"H1", "H2", "H3"}
            /\ Value(artifact.outline[i], "page") >= 1

Logged(message) == \E k \in 1..Len(call.log) : call.log[k] = message

WellFormed(result) ==
    /\ DOMAIN result = {"title", "outline"}
    /\ result.title \in STRING
    /\ DOMAIN result.outline = 1..Len(result.outline)
    /\ \A i \in 1..Len(result.outline) :
           /\ DOMAIN result.outline[i] = {"level", "text", "page", "position"}
           /\ result.outline[i].level \in {"H1", "H2", "H3"}
           /\ result.outline[i].text \in STRING
           /\ result.outline[i].page \in 1..Len(pdf.pages)

\* C5: no failure leaves extract_outline.  Whatever step raises, the call
\* returns a well-formed result (a string title, a list outline); a failure
\* no step recovers gives exactly the empty title and the empty outline; and
\* when only the primary parser fails, the result is the one the plain-text
\* fallback gives and the artifact is written from it.
C5_NeverPropagates ==
    impl # None =>
        /\ ~call.raised
        /\ WellFormed(call.result)
        /\ Logged("Error processing PDF") => call.result = EmptyResult
        /\ impl = "pdf_processor" /\ pdf.primary_fails =>
               /\ Logged("pdfplumber failed")
               /\ ~Logged("Error processing PDF") =>
                      call.result.outline =
                          _extract_headings(_extract_pages_data_fallback(pdf).pages_data)
        /\ impl = "pdf_processor" =>
               artifact \in {JsonResult(call.result), FallbackArtifact}

\* the primary parser failed, the fallback read both pages, and the outline
\* has a heading the fallback's lines gave
C5_Witness ==
    /\ impl = "pdf_processor"
    /\ pdf.primary_fails
    /\ pdf.fallback_fails_at = 0
    /\ ~Logged("Error processing PDF")
    /\ Len(Outline) >= 1
    /\ artifact = JsonResult(call.result)

\* C6: a page whose raw text satisfies the TOC-page check or the generic
\* junk-page check gives the outline no entry.
C6_NoEntryFromFlaggedPage ==
    impl # None =>
        \A k \in 1..Len(pdf.pages) :
            \/ OfPageText(pdf.pages[k].text).toc_page
            \/ OfPageText(pdf.pages[k].text).junk_page
            => \A i \in 1..Len(Outline) : Outline[i].page # k

----------------------------------------------------------------------------
(* Properties of detect_headings (SpecDetect).                             *)

\* the block a heading was made from
BlockOf(heading) == text_blocks[heading.position + 1]

\* the headings made from block number k (from 1)
HeadingsOf(k) == {i \in 1..Len(headings) : headings[i].position = k - 1}

\* the page's font statistics
PageFontSizes == [k \in 1..Len(text_blocks) |-> text_blocks[k].font_size]

\* the block is not turned away before the detectors: its stripped text has
\* 4 to 120 characters and no non-heading indicator
PassesGate(block) ==
    /\ Len(OfBlockText(block.text).stripped) \in 4..120
    /\ ~OfBlockText(block.text).non_heading

FontFormatFires(block) ==
    /\ AtFontSizeThreshold(block.font_size, SumSeq(PageFontSizes), Len(PageFontSizes))
    /\ block.is_bold
    /\ OfBlockText(block.text).proper_heading

KeywordFires(block) ==
    /\ OfBlockText(block.text).important_word
    /\ ~OfBlockText(block.text).toc_entry
    /\ AboveKeywordFontSize(block.font_size, SumSeq(PageFontSizes), Len(PageFontSizes))

\* C7: detect_headings gives a block at most one heading, and the level is
\* that of the first detector that fires, in the order pattern, font/format,
\* keyword: a block matching a template has the template's level whatever
\* the other two would give, and a block on which the font/format detector
\* fires has its level, not the keyword detector's.
C7_FirstDetectorWins ==
    impl = "detect_headings" =>
        /\ \A k \in 1..Len(text_blocks) : Cardinality(HeadingsOf(k)) <= 1
        /\ \A i \in 1..Len(headings) :
               /\ headings[i].position \in 0..(Len(text_blocks) - 1)
               /\ LET block == BlockOf(headings[i])
                      pattern_level == OfBlockText(block.text).pattern_level
                  IN  IF pattern_level # None THEN headings[i].level = pattern_level
                      ELSE IF FontFormatFires(block)
                      THEN headings[i].level =
                               IF NearMaxFontSize(block.font_size, MaxSeq(PageFontSizes))
                               THEN "H1" ELSE "H2"
                      ELSE KeywordFires(block) /\ headings[i].level = "H2"

\* a block on which all three detectors fire, each with another level: it
\* matches the N.N.N template (H3), the font/format detector would give H1
\* and the keyword detector H2; it is H3
C7_Witness ==
    /\ impl = "detect_headings"
    /\ \E i \in 1..Len(headings) :
           /\ headings[i].level = "H3"
           /\ FontFormatFires(BlockOf(headings[i]))
           /\ NearMaxFontSize(BlockOf(headings[i]).font_size, MaxSeq(PageFontSizes))
           /\ KeywordFires(BlockOf(headings[i]))

\* the title of a text of the form N. Title: what follows the number, the
\* dot and the whitespace
TitleOf(s) == SubSeq(s, SkipClass(s, DigitsAt(s, 1) + 1, Space), Len(s))

\* s without one number at its end, if whitespace stands before it
WithoutTrailingNumber(s) ==
    LET d == SkipClassBack(s, Len(s), Digit)
        w == SkipClassBack(s, d, Space)
    IN  IF d < Len(s) /\ w < d THEN SubSeq(s, 1, w) ELSE s

\* s with every run of whitespace made one space
RECURSIVE SingleSpaced(_)
SingleSpaced(s) ==
    IF Len(s) < 2 THEN s
    ELSE IF Ch(s, 1) \in Space /\ Ch(s, 2) \in Space THEN SingleSpaced(Tail(s))
    ELSE (IF Ch(s, 1) \in Space THEN " " ELSE Ch(s, 1)) \o SingleSpaced(Tail(s))

\* the blocks of the form N. Title that pass the gate
NumberedTitleBlocks ==
    {k \in 1..Len(text_blocks) :
        /\ MatchNumbered1(OfBlockText(text_blocks[k].text).stripped)
        /\ PassesGate(text_blocks[k])}

\* C8 as stated: a block of the form N. Title that passes the gate is H1
\* for every font size, all page statistics and both bold flags, and its
\* emitted text is the title, the text without the leading number.
C8_EmitsTitle ==
    impl = "detect_headings" =>
        \A k \in NumberedTitleBlocks :
            /\ Cardinality(HeadingsOf(k)) = 1
            /\ \A i \in HeadingsOf(k) :
                   /\ headings[i].level = "H1"
                   /\ headings[i].text = TitleOf(OfBlockText(text_blocks[k].text).stripped)

\* C8, amended: such a block is H1 for every font size, all page statistics
\* and both bold flags, and its emitted text is the title with every run of
\* whitespace made one space and one trailing number, if whitespace stands
\* before it, removed.
C8_EmitsCleanedTitle ==
    impl = "detect_headings" =>
        \A k \in NumberedTitleBlocks :
            /\ Cardinality(HeadingsOf(k)) = 1
            /\ \A i \in HeadingsOf(k) :
                   /\ headings[i].level = "H1"
                   /\ headings[i].text =
                          WithoutTrailingNumber(SingleSpaced(
                              TitleOf(OfBlockText(text_blocks[k].text).stripped)))

\* '1. Phase 2', small and not bold, is emitted as H1 'Phase' next to a
\* large bold block
C8_Witness ==
    /\ impl = "detect_headings"
    /\ \E k \in NumberedTitleBlocks :
           /\ text_blocks[k].text = "1. Phase 2"
           /\ text_blocks[k].font_size = 12
           /\ ~text_blocks[k].is_bold
           /\ \E j \in 1..Len(text_blocks) : text_blocks[j].font_size = 36 /\ text_blocks[j].is_bold
           /\ \E i \in HeadingsOf(k) : headings[i].level = "H1" /\ headings[i].text = "Phase"

\* the N.N at the head of a text of the form N.N Title
NumberingPrefix(s) == SubSeq(s, 1, DigitsAt(s, DigitsAt(s, 1) + 1) - 1)

\* the text starts with a number that is not the head of an N.N numbering
StartsWithBareNumber(s) == DigitsAt(s, 1) > 0 /\ ~MatchSubNumbering(s)

\* C9: a block of the form N.N Title that passes the gate is H2 and its
\* emitted text starts with the block's N.N prefix ('1.2 Background
\* Research' is emitted as it is), whereas the number at the head of a text
\* that has no such prefix is not in the emitted text.
C9_KeepsNumberingPrefix ==
    impl = "detect_headings" =>
        /\ \A k \in 1..Len(text_blocks) :
               LET text == OfBlockText(text_blocks[k].text).stripped
               IN  MatchNumbered2(text) /\ PassesGate(text_blocks[k]) =>
                       /\ Cardinality(HeadingsOf(k)) = 1
                       /\ \A i \in HeadingsOf(k) :
                              /\ headings[i].level = "H2"
                              /\ StartsWithAt(headings[i].text, 1, NumberingPrefix(text) \o " ")
                              /\ text = "1.2 Background Research" => headings[i].text = text
        /\ \A i \in 1..Len(headings) :
               LET text == WithoutTrailingNumber(SingleSpaced(
                               OfBlockText(BlockOf(headings[i]).text).stripped))
               IN  StartsWithBareNumber(text) =>
                       /\ EndsWith(text, headings[i].text)
                       /\ Len(headings[i].text) < Len(text) - (DigitsAt(text, 1) - 1)

\* '1.2 Background Research' is emitted unchanged as H2, and a heading was
\* made from a text that starts with a bare number
C9_Witness ==
    /\ impl = "detect_headings"
    /\ \E i \in 1..Len(headings) :
           /\ headings[i].level = "H2"
           /\ headings[i].text = "1.2 Background Research"
           /\ BlockOf(headings[i]).text = "1.2 Background Research"
    /\ \E i \in 1..Len(headings) :
           StartsWithBareNumber(OfBlockText(BlockOf(headings[i]).text).stripped)

\* C10: a block whose text has a non-heading indicator gives no heading,
\* for any font size and bold flag, also when the text matches a template.
C10_GateShortCircuits ==
    impl = "detect_headings" =>
        \A k \in 1..Len(text_blocks) :
            OfBlockText(text_blocks[k].text).non_heading => HeadingsOf(k) = {}

\* a large bold block with an indicator and a template's form, and the form
\* field line, gave nothing
C10_Witness ==
    /\ impl = "detect_headings"
    /\ Len(text_blocks) = 2
    /\ text_blocks[1] = TextBlock("2. Name Of Project", 36, TRUE)
    /\ OfBlockText(text_blocks[1].text).pattern_level = "H1"
    /\ text_blocks[2].text = "Name: _____________"
    /\ headings = <<>>

----------------------------------------------------------------------------
(* detect_headings on pages of up to MaxFontBlocks blocks of three font    *)
(* sizes: a page can have a block at twice its mean font size that is its  *)
(* largest, and another at one and a half times the mean that is not near  *)
(* the largest.                                                            *)

MaxFontBlocks == 4

FontTexts == {"Project Overview", "Project Results", "alpha beta gamma"}

FontSizeSteps == {6, 36, 48}

FontBlocks ==
    {TextBlock(t, f, b) : t \in FontTexts, f \in FontSizeSteps, b \in BOOLEAN}

InitFont ==
    /\ text_blocks \in SeqUpTo(FontBlocks, MaxFontBlocks)
    /\ headings = <<>>
    /\ impl = None
    /\ pdf = File(<<>>, FALSE, 0)
    /\ call = NoCall
    /\ artifact = NoArtifact
    /\ arg = None
    /\ ret = <<>>

SpecFont == InitFont /\ [][NextDetect]_vars

\* font size >= 1.5 times the mean of the page's font sizes, bold, and a
\* text that looks like a proper heading; the mean is SumSeq / Len, and the
\* comparison is multiplied out
FontFormatConditions(block) ==
    /\ 2 * block.font_size * Len(PageFontSizes) >= 3 * SumSeq(PageFontSizes)
    /\ block.is_bold
    /\ OfBlockText(block.text).proper_heading

\* H1 at 0.9 times the page's largest font size or more, else H2
FontFormatLevel(block) ==
    IF \A k \in 1..Len(text_blocks) : 10 * block.font_size >= 9 * text_blocks[k].font_size
    THEN "H1" ELSE "H2"

\* C11: of a block that passes the gate and matches no template,
\* detect_headings makes a heading by the font/format detector exactly when
\* the block's font size is at least 1.5 times the page's mean font size,
\* the block is bold and its text looks like a proper heading; the level is
\* then H1 if the font size is at least 0.9 times the page's largest, H2
\* otherwise.  Without these conditions the block has a heading only if the
\* keyword detector fires.
C11_FontFormatDetector ==
    impl = "detect_headings" =>
        \A k \in 1..Len(text_blocks) :
            LET block == text_blocks[k]
            IN  (PassesGate(block) /\ OfBlockText(block.text).pattern_level = None) =>
                    IF FontFormatConditions(block)
                    THEN /\ Cardinality(HeadingsOf(k)) = 1
                         /\ \A i \in HeadingsOf(k) :
                                headings[i].level = FontFormatLevel(block)
                    ELSE HeadingsOf(k) # {} => KeywordFires(block)

\* a page with the bold block "Project Overview" at twice the mean font size
\* and of the page's largest size, made H1, and another block on which the
\* detector fires at a size under 0.9 times the largest, made H2
C11_Witness ==
    /\ impl = "detect_headings"
    /\ \E i, j \in 1..Len(headings) :
           /\ headings[i].text = "Project Overview"
           /\ headings[i].level = "H1"
           /\ BlockOf(headings[i]).is_bold
           /\ BlockOf(headings[i]).font_size * Len(PageFontSizes) = 2 * SumSeq(PageFontSizes)
           /\ BlockOf(headings[i]).font_size = MaxSeq(PageFontSizes)
           /\ headings[j].level = "H2"
           /\ FontFormatConditions(BlockOf(headings[j]))
           /\ ~KeywordFires(BlockOf(headings[j]))

----------------------------------------------------------------------------
(* _clean_heading_text called on a text, and again on what it returned.    *)

MaxCleanings == 2

\* the texts: a numbering or none, a title, and what may trail it
CleanPrefixes == {"", "1. ", "1.2 ", "12 ", "3) "}

CleanTitles == {"Phase", "Phase 2", "Annual Report 2023", "2 Title", "Big  Title"}

CleanSuffixes == {"", " 5", " ..... 14", " "}

CleanTexts ==
    {p \o t \o x : p \in CleanPrefixes, t \in CleanTitles, x \in CleanSuffixes}

InitClean ==
    /\ arg \in CleanTexts
    /\ ret = <<>>
    /\ impl = None
    /\ pdf = File(<<>>, FALSE, 0)
    /\ call = NoCall
    /\ artifact = NoArtifact
    /\ text_blocks = <<>>
    /\ headings = <<>>

\* the first call is on the text, every later one on what the last returned
CleanHeadingText ==
    /\ Len(ret) < MaxCleanings
    /\ ret' = Append(ret, _clean_heading_text(IF ret = <<>> THEN arg ELSE ret[Len(ret)]))
    /\ impl' = "_clean_heading_text"
    /\ UNCHANGED <<pdf, call, artifact, text_blocks, headings, arg>>

NextClean == CleanHeadingText

SpecClean == InitClean /\ [][NextClean]_vars

\* C12: _clean_heading_text is idempotent: called on a text it has
\* returned, it returns that text unchanged.
C12_CleanIdempotent ==
    \A k \in 2..Len(ret) : ret[k] = ret[k - 1]

----------------------------------------------------------------------------
(* Claims on the outline and the title, checked under Spec.                *)

\* C13: no heading of the outline has fewer than 2 words, fewer than 5
\* characters, or a text that is overview, introduction or conclusion in
\* any case; the text is the one emitted, after cleaning.
C13_NoShortOrGenericHeading ==
    \A i \in 1..Len(Outline) :
        /\ WordCount(Outline[i].text) >= 2
        /\ Len(Outline[i].text) >= 5
        /\ str_lower(Outline[i].text) \notin {"overview", "introduction", "conclusion"}

----------------------------------------------------------------------------
(* _group_chars_into_lines of both classes, called on the glyphs of a page.*)
(* A glyph has x0, its left edge; y0, its height above the bottom of the   *)
(* page; and top, its depth below the top of the page.                     *)

MaxGlyphs == 3

PageHeight == 120

Glyph(x0, y0) == [x0 |-> x0, y0 |-> y0, top |-> PageHeight - y0]

GlyphX0s == {10, 50, 150}

GlyphY0s == {90, 96, 98, 100}

Glyphs == {Glyph(x0, y0) : x0 \in GlyphX0s, y0 \in GlyphY0s}

Abs(n) == IF n < 0 THEN 0 - n ELSE n

\* self.config.get('y_tolerance', 3)
y_tolerance == 3

\* sorted(chars, key=lambda c: (-c['y0'], c['x0'])): c before d
CharBefore(c, d) == c.y0 > d.y0 \/ (c.y0 = d.y0 /\ c.x0 < d.x0)

RECURSIVE SortChars(_)
SortChars(chars) ==
    IF chars = {} THEN <<>>
    ELSE LET c == CHOOSE c \in chars : \A d \in chars \ {c} : CharBefore(c, d)
         IN  <<c>> \o SortChars(chars \ {c})

\* float('inf') among the values of the key function, which are at most
\* y_tolerance otherwise
Infinity == y_tolerance + 1

\* the key function of min: the distance of the line's key from y_pos if it
\* is within the tolerance
KeyDistance(k, y_pos) ==
    IF Abs(k[1] - y_pos) <= y_tolerance THEN Abs(k[1] - y_pos) ELSE Infinity

\* min(lines.keys(), key=..., default=None): the first key of the least
\* value, as the number of its line; 0 is None
ClosestLine(lines, y_pos) ==
    IF lines = <<>> THEN 0
    ELSE CHOOSE i \in 1..Len(lines) :
             /\ \A j \in 1..Len(lines) :
                    KeyDistance(lines[j].key, y_pos) >= KeyDistance(lines[i].key, y_pos)
             /\ \A j \in 1..(i - 1) :
                    KeyDistance(lines[j].key, y_pos) > KeyDistance(lines[i].key, y_pos)

\* what one glyph does to the lines
PlaceChar(lines, char, line_key) ==
    IF line_key = 0 \/ Abs(lines[line_key].key[1] - char.y0) > y_tolerance
    THEN Append(lines, [key |-> <<char.y0, char.x0 \div 100>>, chars |-> <<char>>])
    ELSE [lines EXCEPT ![line_key].chars = Append(@, char)]

\* the loop over sorted_chars from glyph i on; lines is the dict, in
\* insertion order
RECURSIVE GroupFrom(_, _, _)
GroupFrom(sorted_chars, i, lines) ==
    IF i > Len(sorted_chars) THEN lines
    ELSE GroupFrom(sorted_chars, i + 1,
                   PlaceChar(lines, sorted_chars[i],
                             ClosestLine(lines, sorted_chars[i].y0)))

LineChars(lines) == [k \in 1..Len(lines) |-> lines[k].chars]

_group_chars_into_lines(chars) ==
    IF chars = {} THEN <<>>
    ELSE LineChars(GroupFrom(SortChars(chars), 1, <<>>))

\* y_tolerance = 3  # pixels
y_toleranceHD == 3

\* sorted(chars, key=lambda c: (-c['top'], c['x0'])): c before d
CharBeforeHD(c, d) == c.top > d.top \/ (c.top = d.top /\ c.x0 < d.x0)

RECURSIVE SortCharsHD(_)
SortCharsHD(chars) ==
    IF chars = {} THEN <<>>
    ELSE LET c == CHOOSE c \in chars : \A d \in chars \ {c} : CharBeforeHD(c, d)
         IN  <<c>> \o SortCharsHD(chars \ {c})

\* the loop over sorted_chars from glyph i on, and the lines after it;
\* current_y is <<>> for None, else <<y>>
RECURSIVE GroupFromHD(_, _, _, _, _)
GroupFromHD(sorted_chars, i, lines, current_line, current_y) ==
    IF i > Len(sorted_chars)
    THEN IF current_line # <<>> THEN Append(lines, current_line) ELSE lines
    ELSE IF current_y = <<>> \/ Abs(sorted_chars[i].top - current_y[1]) <= y_toleranceHD
    THEN GroupFromHD(sorted_chars, i + 1, lines,
                     Append(current_line, sorted_chars[i]), <<sorted_chars[i].top>>)
    ELSE GroupFromHD(sorted_chars, i + 1,
                     IF current_line # <<>> THEN Append(lines, current_line) ELSE lines,
                     <<sorted_chars[i]>>, <<sorted_chars[i].top>>)

_group_chars_into_linesHD(chars) ==
    IF chars = {} THEN <<>>
    ELSE GroupFromHD(SortCharsHD(chars), 1, <<>>, <<>>, <<>>)

InitLines ==
    /\ arg \in {chars \in SUBSET Glyphs : Cardinality(chars) <= MaxGlyphs}
    /\ ret = <<>>
    /\ impl = None
    /\ pdf = File(<<>>, FALSE, 0)
    /\ call = NoCall
    /\ artifact = NoArtifact
    /\ text_blocks = <<>>
    /\ headings = <<>>

GroupCharsIntoLines ==
    /\ impl = None
    /\ impl' = "pdf_processor"
    /\ ret' = <<_group_chars_into_lines(arg)>>
    /\ UNCHANGED <<pdf, call, artifact, text_blocks, headings, arg>>

GroupCharsIntoLinesHD ==
    /\ impl = None
    /\ impl' = "heading_detector"
    /\ ret' = <<_group_chars_into_linesHD(arg)>>
    /\ UNCHANGED <<pdf, call, artifact, text_blocks, headings, arg>>

NextLines == GroupCharsIntoLines \/ GroupCharsIntoLinesHD

SpecLines == InitLines /\ [][NextLines]_vars

\* the lines come top to bottom: every line opens higher on the page than
\* the next one
TopToBottom(lines) ==
    \A k \in 1..(Len(lines) - 1) : lines[k][1].y0 > lines[k + 1][1].y0

\* the glyphs of every line come left to right
LeftToRight(lines) ==
    \A k \in 1..Len(lines) :
        \A a \in 1..(Len(lines[k]) - 1) : lines[k][a].x0 <= lines[k][a + 1].x0

\* every glyph of a line is within the tolerance of the glyph that opened
\* the line, or of the glyph before it in the line
WithinTolerance(lines) ==
    \A k \in 1..Len(lines) :
        \A a \in 2..Len(lines[k]) :
            \/ Abs(lines[k][a].y0 - lines[k][1].y0) <= y_tolerance
            \/ Abs(lines[k][a].y0 - lines[k][a - 1].y0) <= y_tolerance

\* every glyph is in one line, once
EveryGlyphOnce(lines, chars) ==
    /\ Len(Flatten(lines)) = Cardinality(chars)
    /\ {Flatten(lines)[n] : n \in 1..Len(Flatten(lines))} = chars

\* C14: _group_chars_into_lines returns the lines top to bottom, the
\* glyphs of each line left to right (ascending x0) and within the vertical
\* tolerance of the line's reference, every glyph in exactly one line, and
\* no lines for no glyphs.
C14_LinesOrdered ==
    \A r \in 1..Len(ret) :
        /\ TopToBottom(ret[r])
        /\ LeftToRight(ret[r])
        /\ WithinTolerance(ret[r])
        /\ EveryGlyphOnce(ret[r], arg)
        /\ arg = {} => ret[r] = <<>>

\* the first page record, if there is one
FirstPage == PagesData[1]

\* the blocks title selection looks at, and those that qualify as
\* candidates, for the class that ran
LeadingBlocks ==
    IF impl = "heading_detector"
    THEN StrippedBlocks(FirstBlocks(FirstPage.text_blocks, 10))
    ELSE FirstBlocks(FirstPage.text_blocks, 5)

Candidates ==
    IF LeadingBlocks = <<>> THEN <<>>
    ELSE IF impl = "heading_detector" THEN TitleCandidatesHD(LeadingBlocks)
    ELSE TitleCandidates(LeadingBlocks, SizeThreshold100(FontSizesOf(LeadingBlocks)))

\* the first line of a text that is not blank, stripped; "" if all are
FirstNonEmptyLine(raw_text) ==
    IF FallbackLines(raw_text) = <<>> THEN "" ELSE FallbackLines(raw_text)[1]

\* C15: the title is the text of a block of the first page record's
\* leading blocks that no other candidate outranks by (font size, boldness,
\* text length), each descending; and when none of the leading blocks
\* qualifies, it is the first line of the page's raw text that is not
\* blank, a blank first line being skipped.
C15_TitleRankedOrFirstLine ==
    (/\ impl \in {"pdf_processor", "heading_detector"}
     /\ PagesData # <<>>
     /\ ~Logged("Error processing PDF")) =>
        IF Candidates # <<>>
        THEN \E k \in 1..Len(Candidates) :
                 /\ call.result.title = Candidates[k].text
                 /\ \A l \in 1..Len(Candidates) :
                        ~TitleBefore(Candidates[l], Candidates[k])
        ELSE call.result.title = FirstNonEmptyLine(FirstPage.raw_text)

\* C16: whenever the first page record has a text block, title selection
\* returns without raising, and extract_outline returns the headings found
\* on the pages, not the result of its error handler.
C16_TitleKeepsOutline ==
    (/\ impl = "pdf_processor"
     /\ PagesData # <<>>
     /\ FirstPage.text_blocks # <<>>) =>
        /\ ~Logged("Error processing PDF")
        /\ Outline = _extract_headings(PagesData)

====
